---- MODULE Spec2Model ----
(***************************************************************************)
(* Model of app.py, the Flask application of the YouTube to WAV converter. *)
(*                                                                         *)
(*   make_safe_filename   the filename sanitizer (pure)                    *)
(*   download_audio       POST /download: validation, metadata query,      *)
(*                        best-format selection, the update of the global  *)
(*                        ydl_opts, the download, the directory scan and   *)
(*                        the response, with its two exception handlers    *)
(*   download_file        GET /download/<path:filename>                    *)
(*                                                                         *)
(* Python values: None is <<>>, a number n is <<n>>.  A character is a     *)
(* one-character string and a Python string is a sequence of characters.   *)
(***************************************************************************)
EXTENDS Integers, Sequences, FiniteSets, TLC

VARIABLES
    ydl_opts,   \* the module-level dict ydl_opts: its 'format' and 'outtmpl'
    scratch,    \* TEMP_AUDIO_DIR: file name -> request that wrote it, 0 = no file
    req,        \* the in-flight and finished POST /download requests
    formats,    \* selector run: info['formats']
    selected,   \* selector run: (best_format, max_abr) once the loops ran
    filename,   \* sanitizer run: the argument of make_safe_filename
    safe,       \* sanitizer run: its return value
    path,       \* file-server run: the <path:filename> of the GET
    response    \* file-server run: the response of download_file

vars == <<ydl_opts, scratch, req, formats, selected, filename, safe, path, response>>
pure == <<formats, selected, filename, safe, path, response>>

----------------------------------------------------------------------------
(* Bounds *)

MaxLen == 3        \* longest string given to make_safe_filename
MaxFormats == 3    \* longest info['formats'] list
MaxAbr == 2        \* largest bitrate a format reports
MaxPathLen == 3    \* most components in a GET path
MaxOffered == 2    \* longest info['formats'] list a POST /download is given
MaxOfferedAbr == 1 \* largest bitrate in such a list
NumReq == 2        \* POST /download requests in one run

None == <<>>
Num(n) == <<n>>

SeqsUpTo(S, n) == UNION {[1..k -> S] : k \in 0..n}

----------------------------------------------------------------------------
(* make_safe_filename, app.py lines 110-119 *)

Letters == {"a", "u", "d", "i", "o"}
Digits == {"7"}
Chars == {"a", "7", "_", " ", "\t", ".", "-", "!", "/"}

\* \w of Python's re on str: letters, digits and the underscore
IsWord(c) == c \in Letters \cup Digits \cup {"_"}
\* \s of Python's re
IsSpace(c) == c \in {" ", "\t"}

\* re.sub(r'[^\w\s.-]', '', filename)
NoDotKept(c) == IsWord(c) \/ IsSpace(c) \/ c = "-"
SafeKept(c) == IsWord(c) \/ IsSpace(c) \/ c \in {".", "-"}

\* str.replace(' ', '_'): every space character, one by one
ReplaceSpaces(s) == [i \in DOMAIN s |-> IF s[i] = " " THEN "_" ELSE s[i]]

AudioLiteral == <<"a", "u", "d", "i", "o">>

make_safe_filename_nodot(s) ==
    LET stripped == ReplaceSpaces(SelectSeq(s, NoDotKept))
    IN  IF stripped = <<>> THEN AudioLiteral ELSE stripped

make_safe_filename(s) ==
    LET stripped == ReplaceSpaces(SelectSeq(s, SafeKept))
    IN  IF stripped = <<>> THEN AudioLiteral ELSE stripped

----------------------------------------------------------------------------
(* The best-format loops of download_audio, app.py lines 181-199 *)

VCodecs == {"none", "avc1"}
AbrValues(top) == {None} \cup {Num(n) : n \in 0..top}

\* a format dict: has_abr says whether the key 'abr' is present; its
\* 'format_id' is its position in the list
FormatDicts(top) ==
    {f \in [vcodec : VCodecs, has_abr : BOOLEAN, abr : AbrValues(top)] :
        ~f.has_abr => f.abr = None}

\* the lists of at most n format dicts
FormatListsUpTo(n, top) == UNION {[1..k -> FormatDicts(top)] : k \in 0..n}

FormatLists == FormatListsUpTo(MaxFormats, MaxAbr)
OfferedLists == FormatListsUpTo(MaxOffered, MaxOfferedAbr)

\* fmt.get('abr') and fmt.get('abr', 0)
GetAbr(fmt) == IF fmt.has_abr THEN fmt.abr ELSE None
GetAbrOr0(fmt) == IF fmt.has_abr THEN fmt.abr ELSE Num(0)

\* lines 189-191: the body of the first loop, on the pair (best_format, max_abr);
\* best_format is an index into the list, 0 for None
TakesLater(fmt, cur) ==
    /\ fmt.vcodec = "none"
    /\ GetAbr(fmt) # None
    /\ (cur.best = 0 \/ GetAbr(fmt)[1] >= cur.max_abr[1])

Takes(fmt, cur) ==
    /\ fmt.vcodec = "none"
    /\ GetAbr(fmt) # None
    /\ (cur.best = 0 \/ GetAbr(fmt)[1] > cur.max_abr[1])

RECURSIVE BitrateLoop(_, _, _)
BitrateLoop(fs, i, cur) ==
    IF i > Len(fs) THEN cur
    ELSE BitrateLoop(fs, i + 1,
            IF Takes(fs[i], cur) THEN [best |-> i, max_abr |-> GetAbr(fs[i])] ELSE cur)

\* lines 194-199: the first audio-only format, max_abr = fmt.get('abr', 0)
RECURSIVE FallbackLoop(_, _)
FallbackLoop(fs, i) ==
    IF i > Len(fs) THEN [best |-> 0, max_abr |-> Num(0)]
    ELSE IF fs[i].vcodec = "none" THEN [best |-> i, max_abr |-> GetAbrOr0(fs[i])]
    ELSE FallbackLoop(fs, i + 1)

SelectBest(fs) ==
    LET first == BitrateLoop(fs, 1, [best |-> 0, max_abr |-> Num(0)])
    IN  IF first.best = 0 THEN FallbackLoop(fs, 1) ELSE first

----------------------------------------------------------------------------
(* The files download_file can name, app.py lines 26 and 276-292.  The      *)
(* directory of app.py holds app.py itself and temp_audio; a location is    *)
(* the list of names leading to it from that directory.                     *)

Videos == {"v1", "v2"}
Exts == {"wav", "webm", "part"}     \* final WAV, raw download, unfinished raw download
FileNames == Videos \X Exts

Up == <<"..">>
TempAudio == <<"temp_audio">>
AppPy == <<"app.py">>
Components == {Up, TempAudio, AppPy} \cup FileNames

AppDir == <<>>
TEMP_AUDIO_DIR == <<TempAudio>>
Nowhere == <<<<"?">>>>

IsFileAt(loc, dir) ==
    \/ loc = <<AppPy>>
    \/ Len(loc) = 2 /\ loc[1] = TempAudio /\ loc[2] \in FileNames /\ dir[loc[2]] # 0

\* one component of a path, as the operating system follows it
Follow(loc, c, dir) ==
    IF loc = Nowhere \/ IsFileAt(loc, dir) THEN Nowhere
    ELSE IF c = Up THEN (IF loc = AppDir THEN Nowhere ELSE SubSeq(loc, 1, Len(loc) - 1))
    ELSE IF loc = AppDir /\ c \in {TempAudio, AppPy} THEN <<c>>
    ELSE IF loc = TEMP_AUDIO_DIR /\ c \in FileNames /\ dir[c] # 0 THEN <<TempAudio, c>>
    ELSE Nowhere

RECURSIVE Walk(_, _, _)
Walk(loc, p, dir) ==
    IF p = <<>> THEN loc ELSE Walk(Follow(loc, Head(p), dir), Tail(p), dir)

\* os.path.isfile(os.path.join(TEMP_AUDIO_DIR, filename)), line 281
isfile(p, dir) == IsFileAt(Walk(TEMP_AUDIO_DIR, p, dir), dir)

\* posixpath.normpath, as safe_join applies it to the name: lexical only
RECURSIVE normpath(_, _)
normpath(done, p) ==
    IF p = <<>> THEN done
    ELSE IF Head(p) = Up /\ done # <<>> /\ done[Len(done)] # Up
         THEN normpath(SubSeq(done, 1, Len(done) - 1), Tail(p))
         ELSE normpath(Append(done, Head(p)), Tail(p))

\* send_from_directory(TEMP_AUDIO_DIR, filename, as_attachment=True), lines 284-289:
\* safe_join refuses a name that leaves the directory, and a name that is no
\* file is refused too; both raise NotFound
send_from_directory(p, dir) ==
    LET n == normpath(<<>>, p)
    IN  IF (n # <<>> /\ n[1] = Up) \/ ~isfile(n, dir)
        THEN [raised |-> TRUE, file |-> Nowhere]
        ELSE [raised |-> FALSE, file |-> Walk(TEMP_AUDIO_DIR, n, dir)]

NoResponse == [status |-> 0, file |-> Nowhere, as_attachment |-> FALSE]

\* download_file, lines 277-292: NotFound is an Exception, so line 290 catches it
download_file(p, dir) ==
    IF ~isfile(p, dir)
    THEN [status |-> 404, file |-> Nowhere, as_attachment |-> FALSE]
    ELSE LET sent == send_from_directory(p, dir)
         IN  IF sent.raised
             THEN [status |-> 500, file |-> Nowhere, as_attachment |-> FALSE]
             ELSE [status |-> 200, file |-> sent.file, as_attachment |-> TRUE]

----------------------------------------------------------------------------
(* POST /download: download_audio, app.py lines 166-274 *)

Req == 1..NumReq

\* request bodies: no JSON body at all, or a JSON object with some keys
NoBody == [absent |-> TRUE, keys |-> {}, url |-> <<>>]
ObjectBody(keys, u) == [absent |-> FALSE, keys |-> keys, url |-> u]
RawUrls == {<<>>, <<" ", " ">>} \cup UNION {{<<v>>, <<" ", v, " ">>} : v \in Videos}
Bodies ==
    {NoBody, ObjectBody({}, <<>>), ObjectBody({"other"}, <<>>)}
        \cup {ObjectBody({"url"}, u) : u \in RawUrls}

\* str.strip(), line 174
RECURSIVE LStrip(_)
LStrip(s) == IF s # <<>> /\ Head(s) = " " THEN LStrip(Tail(s)) ELSE s
RECURSIVE RStrip(_)
RStrip(s) ==
    IF s # <<>> /\ s[Len(s)] = " " THEN RStrip(SubSeq(s, 1, Len(s) - 1)) ELSE s
Strip(s) == RStrip(LStrip(s))

\* exceptions; the text of a DownloadError is the set of the phrases it contains
NoExc == [type |-> "none", msg |-> {}]
DownloadError(msg) == [type |-> "DownloadError", msg |-> msg]
OtherError(type) == [type |-> type, msg |-> {}]

\* what the extractor reports when extract_info fails, and the text yt-dlp gives it
Categories == {"private", "unavailable", "unsupported", "other"}
Message(cat) ==
    CASE cat = "private" -> {"Private video"}
      [] cat = "unavailable" -> {"Video unavailable"}
      [] cat = "unsupported" -> {"Unsupported URL"}
      [] OTHER -> {}

ErrResp(status, text) == [status |-> status, error |-> text, filename |-> <<>>]
OkResp(f) == [status |-> 200, error |-> "", filename |-> f]
NoResp == [status |-> 0, error |-> "", filename |-> <<>>]

\* the two except clauses, lines 259-274
HandleUnavailableFirst(exc) ==
    IF exc.type = "DownloadError"
    THEN IF "Video unavailable" \in exc.msg \/ "Private video" \in exc.msg
            THEN ErrResp(404, "This video is unavailable or restricted")
         ELSE IF "Unsupported URL" \in exc.msg
            THEN ErrResp(400, "Unsupported URL. Please provide a valid YouTube URL")
         ELSE ErrResp(500, "Error downloading video. Please try again later.")
    ELSE ErrResp(500, "An unexpected error occurred. Please try again later.")

Handle(exc) ==
    IF exc.type = "DownloadError"
    THEN IF "Private video" \in exc.msg
            THEN ErrResp(403, "This video is private and cannot be downloaded")
         ELSE IF "Video unavailable" \in exc.msg
            THEN ErrResp(404, "This video is unavailable or restricted")
         ELSE IF "Unsupported URL" \in exc.msg
            THEN ErrResp(400, "Unsupported URL. Please provide a valid YouTube URL")
         ELSE ErrResp(500, "Error downloading video. Please try again later.")
    ELSE ErrResp(500, "An unexpected error occurred. Please try again later.")

\* ydl_opts as the module builds it, lines 37-108: 'format' 0 stands for
\* 'bestaudio' and n for f"{n}/best"; 'outtmpl' is the path without its extension
InitialOpts == [format |-> 0, outtmpl |-> "youtube_audio_%(id)s"]

\* what a body is, for the statements about validation: no body, an object
\* without 'url', a 'url' that is empty once trimmed, or a 'url' with text
InputKind(b) ==
    IF b.absent THEN "nobody"
    ELSE IF "url" \notin b.keys THEN "nourl"
    ELSE IF \A i \in DOMAIN b.url : b.url[i] = " " THEN "blank"
    ELSE "url"

IdleReq ==
    [pc |-> "Idle", body |-> NoBody, input |-> "none", url |-> <<>>, calls |-> 0, resolved |-> "none",
     best |-> 0, max_abr |-> Num(0), base |-> "", used |-> InitialOpts,
     dl |-> "none", tc |-> "none", exc |-> NoExc, resp |-> NoResp]

Finish(r, fields, resp) ==
    req' = [req EXCEPT ![r] = [fields EXCEPT !.pc = "Responded", !.resp = resp]]

Raise(r, fields, exc) ==
    Finish(r, [fields EXCEPT !.exc = exc], Handle(exc))

\* Flask calls the view function
Receive(r) ==
    /\ req[r].pc = "Idle"
    /\ \E b \in Bodies : req' = [req EXCEPT ![r].pc = "Received", ![r].body = b,
                                            ![r].input = InputKind(b)]
    /\ UNCHANGED <<ydl_opts, scratch, pure>>

\* lines 170-175.  Without a JSON body request.get_json() returns None or, in
\* the Flask releases that reject the content type, raises an HTTPException,
\* which is an Exception.
Validate(r) ==
    LET me == [req[r] EXCEPT !.body = NoBody]     \* data is not read after line 174
        body == req[r].body
    IN
    /\ req[r].pc = "Received"
    /\ \/ /\ body.absent
          /\ Raise(r, me, OtherError("HTTPException"))
       \/ /\ body.absent \/ body.keys = {} \/ "url" \notin body.keys
          /\ Finish(r, me, ErrResp(400, "No URL provided"))
       \/ /\ ~body.absent /\ "url" \in body.keys
          /\ req' = [req EXCEPT ![r] = [me EXCEPT !.pc = "Validated", !.url = Strip(body.url)]]
    /\ UNCHANGED <<ydl_opts, scratch, pure>>

\* lines 178-210: extract_info(url, download=False), the two loops, the names
ResolveMetadata(r) ==
    LET me == [req[r] EXCEPT !.calls = @ + 1] IN
    /\ req[r].pc = "Validated"
    /\ \/ \E cat \in Categories :
            /\ me.url = <<>> => cat \in {"unsupported", "other"}
            /\ Raise(r, [me EXCEPT !.resolved = cat], DownloadError(Message(cat)))
       \/ Raise(r, [me EXCEPT !.resolved = "crash"], OtherError("Exception"))
       \/ /\ me.url # <<>>
          /\ \E fs \in OfferedLists :
                LET sel == SelectBest(fs)
                    got == [me EXCEPT !.resolved = "ok", !.best = sel.best,
                                      !.max_abr = sel.max_abr, !.base = me.url[1]]
                IN  IF sel.best = 0
                    THEN Finish(r, got, ErrResp(400, "No suitable audio format found"))
                    ELSE req' = [req EXCEPT ![r] = [got EXCEPT !.pc = "MetadataResolved"]]
    /\ UNCHANGED <<ydl_opts, scratch, pure>>

\* lines 213-230: ydl_opts.update(...) on the module-level dict
Configure(r) ==
    /\ req[r].pc = "MetadataResolved"
    /\ ydl_opts' = [ydl_opts EXCEPT !.format = req[r].best, !.outtmpl = req[r].base]
    /\ req' = [req EXCEPT ![r].pc = "Configured"]
    /\ UNCHANGED <<scratch, pure>>

\* lines 233-234, first half: YoutubeDL(ydl_opts) reads the dict as it is now and
\* fetches the stream.  'ignoreerrors': 'only_download' (line 97) makes a failed
\* fetch return normally; an unfinished fetch leaves its .part file.
Download(r) ==
    LET me == [req[r] EXCEPT !.used = ydl_opts]
        raw == <<ydl_opts.outtmpl, "webm">>
        part == <<ydl_opts.outtmpl, "part">>
    IN
    /\ req[r].pc = "Configured"
    /\ \/ /\ req' = [req EXCEPT ![r] = [me EXCEPT !.pc = "Downloaded", !.dl = "fetched"]]
          /\ scratch' = [scratch EXCEPT ![raw] = r]
       \/ /\ req' = [req EXCEPT ![r] = [me EXCEPT !.pc = "Returned", !.dl = "partial"]]
          /\ scratch' = [scratch EXCEPT ![part] = r]
       \/ /\ req' = [req EXCEPT ![r] = [me EXCEPT !.pc = "Returned", !.dl = "skipped"]]
          /\ UNCHANGED scratch
       \/ /\ Raise(r, [me EXCEPT !.dl = "raised"], OtherError("Exception"))
          /\ scratch' = [scratch EXCEPT ![part] = r]
    /\ UNCHANGED <<ydl_opts, pure>>

\* line 234, second half: the FFmpegExtractAudio postprocessor writes the WAV
\* and removes the raw file ('keepvideo': False); when it fails the raw file
\* stays, and the failure is reported or raised
Transcode(r) ==
    LET me == req[r]
        raw == <<me.used.outtmpl, "webm">>
        wav == <<me.used.outtmpl, "wav">>
    IN
    /\ me.pc = "Downloaded"
    /\ \/ /\ req' = [req EXCEPT ![r].pc = "Transcoded", ![r].tc = "ok"]
          /\ scratch' = [scratch EXCEPT ![wav] = r, ![raw] = 0]
       \/ /\ req' = [req EXCEPT ![r].pc = "Returned", ![r].tc = "failed"]
          /\ UNCHANGED scratch
       \/ /\ Raise(r, [me EXCEPT !.tc = "raised"], OtherError("PostProcessingError"))
          /\ UNCHANGED scratch
    /\ UNCHANGED <<ydl_opts, pure>>

\* lines 237-257: the first directory entry that starts with base_name, in the
\* order os.listdir gives; os.path.getsize; the response
Respond(r) ==
    LET me == req[r]
        found == {f \in FileNames : scratch[f] # 0 /\ f[1] = me.base}
    IN
    /\ me.pc \in {"Transcoded", "Returned"}
    /\ IF found = {}
       THEN Raise(r, me, OtherError("FileNotFoundError"))
       ELSE \E f \in found :
                IF me.max_abr = None
                THEN Raise(r, me, OtherError("TypeError"))
                ELSE Finish(r, me, OkResp(f))
    /\ UNCHANGED <<ydl_opts, scratch, pure>>

Idle == [formats |-> <<>>, selected |-> [best |-> 0 - 1, max_abr |-> None],
         filename |-> <<>>, safe |-> <<>>, path |-> <<>>, response |-> NoResponse]

OthersIdle(names) ==
    /\ "select" \in names \/ (formats = Idle.formats /\ selected = Idle.selected)
    /\ "sanitize" \in names \/ (filename = Idle.filename /\ safe = Idle.safe)
    /\ "serve" \in names \/ (path = Idle.path /\ response = Idle.response)

Init ==
    /\ ydl_opts = InitialOpts
    /\ scratch = [f \in FileNames |-> 0]
    /\ req = [r \in Req |-> IdleReq]
    /\ OthersIdle({})

Next ==
    \/ \E r \in Req : Receive(r)
    \/ \E r \in Req : Validate(r)
    \/ \E r \in Req : ResolveMetadata(r)
    \/ \E r \in Req : Configure(r)
    \/ \E r \in Req : Download(r)
    \/ \E r \in Req : Transcode(r)
    \/ \E r \in Req : Respond(r)

Spec == Init /\ [][Next]_vars

\* one request alone, from the empty scratch directory
NextSolo ==
    \/ Receive(1)
    \/ Validate(1)
    \/ ResolveMetadata(1)
    \/ Configure(1)
    \/ Download(1)
    \/ Transcode(1)
    \/ Respond(1)

SpecSolo == Init /\ [][NextSolo]_vars

----------------------------------------------------------------------------
(* The selector alone: every list of formats, then the two loops *)

InitSelect ==
    /\ ydl_opts = InitialOpts
    /\ scratch = [f \in FileNames |-> 0]
    /\ req = [r \in Req |-> IdleReq]
    /\ formats \in FormatLists
    /\ selected = Idle.selected
    /\ OthersIdle({"select"})

RunSelect ==
    /\ selected = Idle.selected
    /\ selected' = SelectBest(formats)
    /\ UNCHANGED <<ydl_opts, scratch, req, formats, filename, safe, path, response>>

SpecSelect == InitSelect /\ [][RunSelect]_vars

(* The sanitizer alone: every string, then make_safe_filename.  It never     *)
(* returns the empty string, which therefore marks a run not yet made.       *)

InitSanitize ==
    /\ ydl_opts = InitialOpts
    /\ scratch = [f \in FileNames |-> 0]
    /\ req = [r \in Req |-> IdleReq]
    /\ filename \in SeqsUpTo(Chars, MaxLen)
    /\ safe = Idle.safe
    /\ OthersIdle({"sanitize"})

RunSanitize ==
    /\ safe = Idle.safe
    /\ safe' = make_safe_filename(filename)
    /\ UNCHANGED <<ydl_opts, scratch, req, formats, selected, filename, path, response>>

SpecSanitize == InitSanitize /\ [][RunSanitize]_vars

(* The file server alone: any content of the scratch directory, any path *)

InitServe ==
    /\ ydl_opts = InitialOpts
    /\ scratch \in [FileNames -> {0, 1}]
    /\ req = [r \in Req |-> IdleReq]
    /\ path \in SeqsUpTo(Components, MaxPathLen) \ {<<>>}
    /\ response = Idle.response
    /\ OthersIdle({"serve"})

Serve ==
    /\ response = Idle.response
    /\ response' = download_file(path, scratch)
    /\ UNCHANGED <<ydl_opts, scratch, req, formats, selected, filename, safe, path>>

SpecServe == InitServe /\ [][Serve]_vars

----------------------------------------------------------------------------
(* Properties *)

Answered(r) == req[r].pc = "Responded"
Status(r) == req[r].resp.status
GenericTexts ==
    {"Error downloading video. Please try again later.",
     "An unexpected error occurred. Please try again later."}

StatusOfCategory(cat) ==
    CASE cat = "private" -> 403
      [] cat = "unavailable" -> 404
      [] cat = "unsupported" -> 400
      [] OTHER -> 500

\* C1: a POST /download whose extract_info call fails is answered by the
\* category of the failure: private 403, unavailable 404, unsupported URL 400,
\* any other extractor failure 500 with a generic text; and whatever exception
\* the handler catches, the answer is never 200, and 500 with a generic text
\* when the exception is no DownloadError.
C1_FailureStatus ==
    \A r \in Req :
        /\ req[r].resolved \in Categories \cup {"crash"} =>
                /\ Answered(r)
                /\ Status(r) = StatusOfCategory(req[r].resolved)
                /\ Status(r) = 500 => req[r].resp.error \in GenericTexts
        /\ req[r].exc # NoExc =>
                /\ Answered(r)
                /\ Status(r) \in {400, 403, 404, 500}
                /\ req[r].exc.type # "DownloadError" =>
                        Status(r) = 500 /\ req[r].resp.error \in GenericTexts

C1_Witness ==
    /\ req[1].resolved = "private"
    /\ req[1].exc = DownloadError({"Private video"})
    /\ Status(1) = 403

\* C2: a POST /download without a body, without 'url', or with a 'url' that is
\* empty once trimmed, is answered 400 with an error text, and extract_info is
\* not called for it.
C2_RejectedUnvalidated ==
    \A r \in Req :
        (req[r].input \in {"nobody", "nourl", "blank"} /\ req[r].pc # "Received") =>
            /\ Answered(r)
            /\ Status(r) = 400
            /\ req[r].resp.error # ""
            /\ req[r].calls = 0

\* C3: two requests for different videos do not collide: each downloads with
\* the format it selected and to the path made from its own video, and a 200
\* names a file it wrote itself.
C3_NoCollision ==
    \A r \in Req : \A q \in Req \ {r} :
        (req[r].resolved = "ok" /\ req[q].resolved = "ok" /\ req[r].base # req[q].base) =>
            /\ req[r].dl # "none" =>
                    (req[r].used.format = req[r].best /\ req[r].used.outtmpl = req[r].base)
            /\ Status(r) = 200 =>
                    (req[r].resp.filename[1] = req[r].base
                        /\ scratch[req[r].resp.filename] = r)

\* C4: every 200 of POST /download names a file ending in .wav that exists in
\* the scratch directory, and GET /download/<that name> returns that file as
\* an attachment.
C4_ServableWav ==
    \A r \in Req :
        Status(r) = 200 =>
            LET f == req[r].resp.filename
                got == download_file(<<f>>, scratch)
            IN  /\ f[2] = "wav"
                /\ scratch[f] # 0
                /\ got.status = 200 /\ got.as_attachment /\ got.file = <<TempAudio, f>>

InScratch(p, dir) ==
    LET loc == Walk(TEMP_AUDIO_DIR, p, dir)
    IN  IsFileAt(loc, dir) /\ Len(loc) = 2 /\ loc[1] = TempAudio

\* C5: GET /download/<name> returns a file only when the name leads to a
\* file inside the scratch directory, returns 404 for every other name, and
\* never returns a file outside the scratch directory.
C5_StrictlyUnderScratch ==
    response.status # 0 =>
        /\ response.status = 200 =>
                (InScratch(path, scratch) /\ response.file = Walk(TEMP_AUDIO_DIR, path, scratch))
        /\ ~InScratch(path, scratch) => response.status = 404

AudioOnly(fs) == {i \in DOMAIN fs : fs[i].vcodec = "none"}
KnownRate(fs) == {i \in AudioOnly(fs) : fs[i].has_abr /\ fs[i].abr # None}

\* C6: the selector picks, among the audio-only formats, the one with the
\* highest known bitrate, the earliest on ties; when none has a known bitrate,
\* the first audio-only format; and nothing only when no format is audio-only.
C6_BestStream ==
    selected # Idle.selected =>
        LET b == selected.best IN
        /\ b = 0 <=> AudioOnly(formats) = {}
        /\ KnownRate(formats) # {} =>
                /\ b \in KnownRate(formats)
                /\ \A j \in KnownRate(formats) :
                        /\ formats[j].abr[1] <= formats[b].abr[1]
                        /\ formats[j].abr[1] = formats[b].abr[1] => b <= j
        /\ (KnownRate(formats) = {} /\ AudioOnly(formats) # {}) =>
                (b \in AudioOnly(formats) /\ \A j \in AudioOnly(formats) : b <= j)

C6_Witness ==
    /\ selected # Idle.selected
    /\ \E i \in KnownRate(formats) : \E j \in KnownRate(formats) :
            /\ i < j /\ formats[i].abr = formats[j].abr
            /\ \A k \in KnownRate(formats) : formats[k].abr[1] <= formats[i].abr[1]
            /\ selected.best = i
    /\ \E k \in DOMAIN formats : formats[k].vcodec # "none"

ClaimKept(c) == IsWord(c) \/ c \in {" ", "\t", ".", "-"}

RECURSIVE CollapseRuns(_)
CollapseRuns(s) ==
    IF s = <<>> THEN <<>>
    ELSE IF IsSpace(Head(s))
         THEN IF Len(s) > 1 /\ IsSpace(s[2]) THEN CollapseRuns(Tail(s))
              ELSE <<"_">> \o CollapseRuns(Tail(s))
         ELSE <<Head(s)>> \o CollapseRuns(Tail(s))

\* C7 as the specification words it: every character that is not
\* alphanumeric, whitespace, a dot or a dash is removed, each run of
\* whitespace becomes one underscore, and an empty result becomes "audio".
\* (alphanumeric is read as the \w of the pattern, underscore included).
C7_AsWorded ==
    safe # Idle.safe =>
        LET out == CollapseRuns(SelectSeq(filename, ClaimKept))
        IN  safe = IF out = <<>> THEN AudioLiteral ELSE out

AmendedKept(c) == c \in Letters \cup Digits \cup {"_", " ", "\t", ".", "-"}

\* C7, amended: make_safe_filename removes every character that is not a
\* letter, a digit, an underscore, whitespace, a dot or a dash, turns every
\* remaining space character into one underscore (one per space: runs are not
\* collapsed, and other whitespace stays), and returns "audio" when nothing
\* is left.
C7_PerCharacter ==
    safe # Idle.safe =>
        LET kept == SelectSeq(filename, AmendedKept) IN
        IF kept = <<>> THEN safe = AudioLiteral
        ELSE /\ Len(safe) = Len(kept)
             /\ \A i \in DOMAIN kept : safe[i] = IF kept[i] = " " THEN "_" ELSE kept[i]

C7_Witness ==
    /\ filename = <<".", " ", " ">>
    /\ safe = <<".", "_", "_">>

\* C8: a 200 is answered only after the request's own download and its own
\* transcode succeeded; a download that returns without this request having
\* produced an output file ends in 500, whatever files of earlier requests
\* the scratch directory holds.
C8_OwnOutputBefore200 ==
    \A r \in Req :
        /\ Status(r) = 200 => (req[r].dl = "fetched" /\ req[r].tc = "ok")
        /\ (Answered(r) /\ req[r].dl # "none" /\ req[r].tc # "ok") => Status(r) = 500

\* C9: a POST /download answered with a failure after its download started
\* leaves no file of its own in the scratch directory.  (The handler has no
\* code that detects or reports a file left behind: its failure texts are the
\* fixed ones of lines 263-274.)
C9_NoOrphan ==
    \A r \in Req :
        (Answered(r) /\ Status(r) # 200 /\ req[r].dl # "none") =>
            \A f \in FileNames : scratch[f] # r

\* C10: when metadata resolution, download and transcode all succeeded, the
\* answer is 200, whether the bitrate of the selected format is known or not.
C10_BitrateIrrelevant ==
    \A r \in Req :
        (Answered(r) /\ req[r].resolved = "ok" /\ req[r].dl = "fetched" /\ req[r].tc = "ok") =>
            Status(r) = 200

====
